---- MODULE Spec2Model ----
(***************************************************************************)
(* Model of netlify/functions/check-ssl/check-ssl.go: the two entry points *)
(* `handler` (Endpoint A, JSON) and `handleRequest` (Endpoint B, text).    *)
(*                                                                         *)
(* Strings are sequences of tokens.  A token is either a single delimiter  *)
(* character (":", "/", "[", "]", " ", the double quote, the backslash) or *)
(* a maximal run of characters that contains no delimiter; concatenation   *)
(* of strings is \o of token sequences.  Fixed pieces of format strings    *)
(* are one token each.                                                     *)
(*                                                                         *)
(* handleRequest's `debug` parameter only adds lines on the console and is *)
(* left out.                                                               *)
(***************************************************************************)
EXTENDS Integers, Sequences, FiniteSets, TLC

DQ == "\""
BS == "\\"

\* Runs that start with a letter / runs of digits / runs of digits and dots.
Words == {"https", "HTTPS", "http", "a.com", "b.com", "p", "x"}
DigitRuns == {"8443", "443", "1"}
DottedRuns == {"10.0.0.1"}

E == << >>

------------------------------------------------------------------------------
(* Helpers on token strings (Go: strings.Index, LastIndex, HasPrefix, Cut). *)

RECURSIVE IndexFrom(_, _, _)
IndexFrom(s, t, i) ==
    IF i > Len(s) THEN 0
    ELSE IF s[i] = t THEN i ELSE IndexFrom(s, t, i + 1)

\* 1-based position of the first t in s, 0 when absent
Index(s, t) == IndexFrom(s, t, 1)

RECURSIVE LastIndexFrom(_, _, _)
LastIndexFrom(s, t, i) ==
    IF i < 1 THEN 0
    ELSE IF s[i] = t THEN i ELSE LastIndexFrom(s, t, i - 1)

\* 1-based position of the last t in s, 0 when absent
LastIndex(s, t) == LastIndexFrom(s, t, Len(s))

Contains(s, t) == Index(s, t) # 0

HasPrefix(s, p) == Len(s) >= Len(p) /\ SubSeq(s, 1, Len(p)) = p

From(s, i) == SubSeq(s, i, Len(s))
Upto(s, i) == SubSeq(s, 1, i)

ToLower(t) == IF t = "HTTPS" THEN "https" ELSE t

------------------------------------------------------------------------------
(* net/url as used at check-ssl.go:53 and :189 (Parse), :200 (Port) and    *)
(* :201 (Hostname).                                                        *)

\* url.getScheme: scan up to the first ":"; a leading digit run or any other
\* delimiter before it means "no scheme"; a leading ":" is an error.
RECURSIVE SchemeScan(_, _)
SchemeScan(raw, i) ==
    IF i > Len(raw) THEN [scheme |-> E, rest |-> raw, err |-> FALSE]
    ELSE IF raw[i] \in Words THEN SchemeScan(raw, i + 1)
    ELSE IF raw[i] \in DigitRuns \cup DottedRuns THEN
        IF i = 1 THEN [scheme |-> E, rest |-> raw, err |-> FALSE]
        ELSE SchemeScan(raw, i + 1)
    ELSE IF raw[i] = ":" THEN
        IF i = 1 THEN [scheme |-> E, rest |-> E, err |-> TRUE]
        ELSE [scheme |-> Upto(raw, i - 1), rest |-> From(raw, i + 1), err |-> FALSE]
    ELSE [scheme |-> E, rest |-> raw, err |-> FALSE]

getScheme(raw) == SchemeScan(raw, 1)

\* url.validOptionalPort: "" or ":" followed by digits only
validOptionalPort(port) ==
    \/ port = E
    \/ /\ Head(port) = ":"
       /\ \A i \in 2..Len(port) : port[i] \in DigitRuns

\* url.parseHost: the bracket / port checks and the host-character check
parseHostErr(host) ==
    \/ /\ HasPrefix(host, <<"[">>)
       /\ \/ LastIndex(host, "]") = 0
          \/ ~validOptionalPort(From(host, LastIndex(host, "]") + 1))
    \/ /\ ~HasPrefix(host, <<"[">>)
       /\ LastIndex(host, ":") # 0
       /\ ~validOptionalPort(From(host, LastIndex(host, ":")))
    \/ Contains(host, " ")

NoURL == [err |-> TRUE, Scheme |-> E, Opaque |-> E, Host |-> E, Path |-> E]

\* url.Parse
Parse(raw) ==
    LET g == getScheme(raw)
        scheme == [i \in 1..Len(g.scheme) |-> ToLower(g.scheme[i])]
        rest == g.rest
    IN  IF g.err THEN NoURL
        ELSE IF ~HasPrefix(rest, <<"/">>) /\ scheme # E THEN
            [err |-> FALSE, Scheme |-> scheme, Opaque |-> rest, Host |-> E, Path |-> E]
        ELSE IF /\ ~HasPrefix(rest, <<"/">>)
                /\ LET cut == Index(rest, "/")
                       segment == IF cut = 0 THEN rest ELSE Upto(rest, cut - 1)
                   IN Contains(segment, ":") THEN NoURL
        ELSE IF /\ (scheme # E \/ ~HasPrefix(rest, <<"/", "/", "/">>))
                /\ HasPrefix(rest, <<"/", "/">>) THEN
            LET auth0 == From(rest, 3)
                cut == Index(auth0, "/")
                authority == IF cut = 0 THEN auth0 ELSE Upto(auth0, cut - 1)
                path == IF cut = 0 THEN E ELSE From(auth0, cut)
            IN  IF parseHostErr(authority) THEN NoURL
                ELSE [err |-> FALSE, Scheme |-> scheme, Opaque |-> E,
                      Host |-> authority, Path |-> path]
        ELSE [err |-> FALSE, Scheme |-> scheme, Opaque |-> E, Host |-> E, Path |-> rest]

\* url.splitHostPort, the function behind URL.Hostname and URL.Port
splitHostPort(hostport) ==
    LET colon == LastIndex(hostport, ":")
        split == colon # 0 /\ validOptionalPort(From(hostport, colon))
        host == IF split THEN Upto(hostport, colon - 1) ELSE hostport
        port == IF split THEN From(hostport, colon + 1) ELSE E
        bare == IF HasPrefix(host, <<"[">>) /\ Len(host) >= 2 /\ host[Len(host)] = "]"
                THEN SubSeq(host, 2, Len(host) - 1) ELSE host
    IN  [host |-> bare, port |-> port]

Hostname(u) == splitHostPort(u.Host).host
Port(u) == splitHostPort(u.Host).port

\* net.JoinHostPort (check-ssl.go:60)
JoinHostPort(host, port) ==
    IF Contains(host, ":") THEN <<"[">> \o host \o <<"]", ":">> \o port
    ELSE host \o <<":">> \o port

------------------------------------------------------------------------------
(* net.SplitHostPort, the address check made by the dial (check-ssl.go:64,  *)
(* :205): [host, port, err].                                                *)
SplitHostPort(addr) ==
    LET i == LastIndex(addr, ":")
        bad == [host |-> E, port |-> E, err |-> TRUE]
    IN  IF i = 0 THEN bad
        ELSE IF HasPrefix(addr, <<"[">>) THEN
            LET end == Index(addr, "]")
            IN  IF end = 0 \/ end + 1 # i THEN bad
                ELSE LET host == SubSeq(addr, 2, end - 1)
                     IN IF Contains(host, "[") \/ Contains(host, "]") THEN bad
                        ELSE [host |-> host, port |-> From(addr, i + 1), err |-> FALSE]
        ELSE LET host == Upto(addr, i - 1)
             IN IF Contains(host, ":") \/ Contains(host, "[") \/ Contains(host, "]")
                THEN bad
                ELSE [host |-> host, port |-> From(addr, i + 1), err |-> FALSE]

\* Literal IP addresses; every other host goes through a name lookup.
IPLiterals == {<<"10.0.0.1">>, <<":", ":", "1">>}
DNSNamesKnown == {<<"a.com">>, <<"b.com">>}
Resolvable(host) == host \in IPLiterals \cup DNSNamesKnown

------------------------------------------------------------------------------
(* Time: a calendar year, the hour within it (0..8759), and the zone      *)
(* offset in hours (time.Time as carried by x509.Certificate.NotBefore /   *)
(* NotAfter).                                                              *)
At(y, h, o) == [year |-> y, hour |-> h, off |-> o]

\* time.Time.UTC (check-ssl.go:85-86): same instant, offset zero
UTC(t) ==
    LET h == t.hour - t.off
    IN  IF h >= 8760 THEN At(t.year + 1, h - 8760, 0)
        ELSE IF h < 0 THEN At(t.year - 1, h + 8760, 0)
        ELSE At(t.year, h, 0)

Before(a, b) ==
    LET x == UTC(a)
        y == UTC(b)
    IN  x.year < y.year \/ (x.year = y.year /\ x.hour < y.hour)

\* time.Now() at the moment of verification
Now == At(2026, 100, 0)

\* time.Time.Format(time.RFC3339) (check-ssl.go:227)
FormatRFC3339(t) ==
    <<ToString(t.year), "+", ToString(t.hour), "h",
      IF t.off = 0 THEN "Z" ELSE ToString(t.off)>>

------------------------------------------------------------------------------
(* Certificates a peer may present (x509.Certificate, the fields read at   *)
(* check-ssl.go:83-92 and by Verify).                                      *)
Cert(sub, iss, nb, na, names, ca) ==
    [Subject |-> sub, Issuer |-> iss, NotBefore |-> nb, NotAfter |-> na,
     DNSNames |-> names, IsCA |-> ca, SignatureAlgorithm |-> "SHA256-RSA"]

LeafCert == Cert("CN=a.com", "CN=Int", At(2025, 0, 0), At(2027, 0, 0),
                 << <<"a.com">> >>, FALSE)
IntCert == Cert("CN=Int", "CN=Root", At(2020, 0, 1), At(2035, 0, 0),
                << <<"b.com">> >>, TRUE)
RootCert == Cert("CN=Root", "CN=Root", At(2010, 0, 0), At(2040, 0, 0), << >>, TRUE)
ExpiredCert == Cert("CN=a.com", "CN=Int", At(2019, 0, 0), At(2020, 0, 0),
                    << <<"a.com">> >>, FALSE)
\* notAfter 9999-12-31T23:00:00-01:00, i.e. 10000-01-01T00:00:00Z
FarCert == Cert("CN=far", "CN=far", At(2025, 0, 0), At(9999, 8759, -1),
                << <<"a.com">> >>, TRUE)

PeerCerts == {LeafCert, IntCert, RootCert, ExpiredCert, FarCert}

\* the host's trusted root set (VerifyOptions.Roots left nil, check-ssl.go:105-110)
SystemRoots == {RootCert}

MaxChain == 3
Chains == UNION {[1..n -> PeerCerts] : n \in 0..MaxChain}

------------------------------------------------------------------------------
(* x509.Certificate.Verify as called at check-ssl.go:113.                  *)
NilErr == [nil |-> TRUE, text |-> E]
Err(text) == [nil |-> FALSE, text |-> text]

TimeValid(c) == ~Before(Now, c.NotBefore) /\ ~Before(c.NotAfter, Now)

RECURSIVE JoinNames(_)
JoinNames(names) ==
    IF names = << >> THEN E
    ELSE IF Len(names) = 1 THEN Head(names)
    ELSE Head(names) \o <<", ">> \o JoinNames(Tail(names))

\* Certificate.VerifyHostname
VerifyHostname(c, h) ==
    IF h \in IPLiterals \/ (HasPrefix(h, <<"[">>) /\ h[Len(h)] = "]") THEN
        Err(<<"x509: cannot validate certificate for ">> \o h
            \o <<" because it doesn't contain any IP SANs">>)
    ELSE IF \E i \in 1..Len(c.DNSNames) : c.DNSNames[i] = h THEN NilErr
    ELSE IF c.DNSNames = << >> THEN
        Err(<<"x509: certificate is not valid for any names, but wanted to match ">> \o h)
    ELSE Err(<<"x509: certificate is valid for ">> \o JoinNames(c.DNSNames)
             \o <<", not ">> \o h)

\* Certificate.buildChains: is there a path from c to a root through the pool
RECURSIVE ChainsTo(_, _, _, _)
ChainsTo(c, roots, pool, seen) ==
    \/ \E r \in roots : r.Subject = c.Issuer /\ r.IsCA /\ TimeValid(r)
    \/ \E p \in pool \ seen :
          /\ p.Subject = c.Issuer /\ p.IsCA /\ TimeValid(p)
          /\ ChainsTo(p, roots, pool, seen \cup {p})

Verify(c, opts) ==
    IF ~TimeValid(c) THEN
        Err(<<"x509: certificate has expired or is not yet valid">>)
    ELSE IF opts.DNSName # E /\ ~VerifyHostname(c, opts.DNSName).nil THEN
        VerifyHostname(c, opts.DNSName)
    ELSE IF c \in opts.Roots \/ ChainsTo(c, opts.Roots, opts.Intermediates, {c}) THEN NilErr
    ELSE Err(<<"x509: certificate signed by unknown authority">>)

------------------------------------------------------------------------------
(* Responses.                                                              *)

ErrOpen == "{\"error\": \""

\* createErrorResponse (check-ssl.go:36-42): fmt.Sprintf(`{"error": "%s"}`, message)
createErrorResponse(statusCode, message) ==
    [StatusCode |-> statusCode,
     Body |-> <<ErrOpen>> \o message \o <<DQ, "}">>,
     ContentType |-> "application/json"]

\* http.Error (check-ssl.go:181, :191, :207, :218)
httpError(text, statusCode) ==
    [StatusCode |-> statusCode,
     Body |-> <<text, "\n">>,
     ContentType |-> "text/plain; charset=utf-8"]

NoResponse == [StatusCode |-> 0, Body |-> E, ContentType |-> ""]

------------------------------------------------------------------------------
(* The chain-to-summary loop, check-ssl.go:80-95.                          *)

\* lines 91-93: only the first summary gets the SANs
InfoDNSNamesAll(certInfos, cert) == cert.DNSNames
InfoDNSNames(certInfos, cert) ==
    IF Len(certInfos) = 0 THEN cert.DNSNames ELSE << >>

CertInfo(certInfos, cert) ==
    [Subject |-> cert.Subject,
     Issuer |-> cert.Issuer,
     NotBefore |-> UTC(cert.NotBefore),
     NotAfter |-> UTC(cert.NotAfter),
     DNSNames |-> InfoDNSNames(certInfos, cert),
     IsCA |-> cert.IsCA,
     SignatureAlgo |-> cert.SignatureAlgorithm]

RECURSIVE CertInfoLoop(_, _, _)
CertInfoLoop(certs, i, certInfos) ==
    IF i > Len(certs) THEN certInfos
    ELSE CertInfoLoop(certs, i + 1, Append(certInfos, CertInfo(certInfos, certs[i])))

CertInfosSkipFirst(certs) == CertInfoLoop(certs, 2, << >>)
CertInfos(certs) == CertInfoLoop(certs, 1, << >>)

(* The intermediate pool, check-ssl.go:98-103 (indices here are 1-based).  *)
RECURSIVE PoolLoop(_, _, _)
PoolLoop(certs, i, pool) ==
    IF i > Len(certs) THEN pool
    ELSE PoolLoop(certs, i + 1, IF i > 1 THEN pool \cup {certs[i]} ELSE pool)

IntermediatesOf(certs) == PoolLoop(certs, 1, {})

\* check-ssl.go:105-110: Roots is left unset, so the system roots are used
ValidationOpts(hostname, intermediates) ==
    [DNSName |-> hostname, Intermediates |-> intermediates, Roots |-> SystemRoots]

\* check-ssl.go:113 writes the receiver of Verify as `certs`, the whole
\* slice, not `certs[0]`: the positions of the chain the receiver denotes.
VerifyReceiver(certs) == 1..Len(certs)

\* check-ssl.go:112-115
ValidationMessageAlwaysValid(err) == <<"Certificate chain is valid.">>
ValidationMessage(err) ==
    IF err.nil THEN <<"Certificate chain is valid.">>
    ELSE <<"Certificate chain verification failed: ">> \o err.text

\* encoding/json on time.Time: a year outside [0, 9999] cannot be encoded
TimeMarshals(t) == t.year >= 0 /\ t.year <= 9999

MarshalCertInfo(info) ==
    IF info.DNSNames = << >> THEN
        [subject |-> info.Subject, issuer |-> info.Issuer,
         not_before |-> info.NotBefore, not_after |-> info.NotAfter,
         is_ca |-> info.IsCA, signature_algorithm |-> info.SignatureAlgo]
    ELSE
        [subject |-> info.Subject, issuer |-> info.Issuer,
         not_before |-> info.NotBefore, not_after |-> info.NotAfter,
         dns_names |-> info.DNSNames,
         is_ca |-> info.IsCA, signature_algorithm |-> info.SignatureAlgo]

\* json.MarshalIndent(responsePayload, "", "  "), check-ssl.go:124
MarshalIndent(payload) ==
    IF \E i \in 1..Len(payload.Certificates) :
          \/ ~TimeMarshals(payload.Certificates[i].NotBefore)
          \/ ~TimeMarshals(payload.Certificates[i].NotAfter)
    THEN [err |-> TRUE, json |-> [target_url |-> E]]
    ELSE [err |-> FALSE,
          json |-> [target_url |-> payload.TargetURL,
                    certificates |-> [i \in 1..Len(payload.Certificates) |->
                                        MarshalCertInfo(payload.Certificates[i])],
                    chain_validation_message |-> payload.ChainValidation]]

------------------------------------------------------------------------------
(* Requests.                                                               *)

Prefixes == {E, <<"https", ":", "/", "/">>, <<"http", ":", "/", "/">>, <<"/", "/">>}
HostParts == {E, <<"a.com">>, <<"b.com">>, <<"[", ":", ":", "1", "]">>}
PortParts == {E, <<":", "8443">>}
PathParts == {E, <<"/", "p">>}
ExtraURLs == {<<"HTTPS", ":", "/", "/", "a.com", ":">>,
              <<"https", ":", "/", "/", "a.com", " ">>,
              <<"10.0.0.1", ":", "8443">>}

\* values of the `url` query parameter (absent = empty)
URLs == ({a \o b \o c \o d : a \in Prefixes, b \in HostParts,
                             c \in PortParts, d \in PathParts} \ {<<"/", "/">>})
        \cup ExtraURLs

\* values of the `ip` query parameter (absent = empty)
IPs == {E, <<"10.0.0.1">>, <<":", ":", "1">>, <<"x", DQ, "x">>, <<"x", BS>>}

DialTimeoutSeconds == 5
DefaultPort == <<"443">>

VARIABLES
    ep,         \* entry point serving the current invocation: "A", "B" or "-"
    pc,         \* "idle", "dialing", "handshaking", "connected", "done"
    ip,         \* handler: request.QueryStringParameters["ip"]
    rawURL,     \* the `url` query parameter as received
    hostname,   \* handler: the local `hostname` after lines 53-56
    address,    \* the address handed to the dial
    tlsConfig,  \* the tls.Config of the dial
    deadline,   \* seconds of dial timeout armed for connect+handshake, 0 = none
    peer,       \* "-", "tls" (answers the handshake) or "stall" (never answers)
    conn,       \* "none", "open", "closed": the invocation's connection
    dials,      \* transport connections this invocation has opened
    openConns,  \* connections open in the process, over all invocations
    handshakeComplete,  \* conn.ConnectionState().HandshakeComplete
    certs,      \* conn.ConnectionState().PeerCertificates
    verify,     \* the Verify call made at line 113 and its result
    message,    \* handler: the message given to createErrorResponse
    resp        \* the response returned

vars == <<ep, pc, ip, rawURL, hostname, address, tlsConfig, deadline, peer,
          conn, dials, openConns, handshakeComplete, certs, verify, message, resp>>

NoConfig == [ServerName |-> E, InsecureSkipVerify |-> FALSE]
NoVerify == [called |-> FALSE, receiver |-> {}, opts |-> ValidationOpts(E, {}),
             err |-> NilErr]

Init ==
    /\ ep = "-" /\ pc = "idle"
    /\ ip = E /\ rawURL = E /\ hostname = E /\ address = E
    /\ tlsConfig = NoConfig /\ deadline = 0 /\ peer = "-"
    /\ conn = "none" /\ dials = 0 /\ openConns = 0 /\ handshakeComplete = FALSE
    /\ certs = << >> /\ verify = NoVerify /\ message = E /\ resp = NoResponse

------------------------------------------------------------------------------
(* Endpoint A, handler, up to the dial: check-ssl.go:45-67.                *)

\* line 48
MissingInputBoth(i, u) == i = E /\ u = E
MissingInput(i, u) == i = E \/ u = E

\* lines 53-56
ExtractHostname(u) ==
    LET parsedURL == Parse(u)
    IN  IF ~parsedURL.err /\ parsedURL.Host # E THEN parsedURL.Host ELSE u

handlerBegin ==
    /\ pc = "idle"
    /\ \E i \in IPs, u \in URLs :
        /\ ep' = "A" /\ ip' = i /\ rawURL' = u
        /\ IF MissingInput(i, u) THEN
              /\ message' = <<"Query parameters 'ip' and 'url' are required.">>
              /\ resp' = createErrorResponse(400, message')
              /\ pc' = "done"
              /\ UNCHANGED <<hostname, address, tlsConfig, deadline>>
           ELSE
              /\ hostname' = ExtractHostname(u)
              /\ address' = JoinHostPort(i, DefaultPort)
              /\ deadline' = DialTimeoutSeconds
              /\ tlsConfig' = [ServerName |-> hostname', InsecureSkipVerify |-> TRUE]
              /\ pc' = "dialing"
              /\ UNCHANGED <<message, resp>>
    /\ UNCHANGED <<peer, conn, dials, openConns, handshakeComplete, certs, verify>>

(* Endpoint B, handleRequest, up to the dial: check-ssl.go:175-205.        *)

\* line 190
InvalidURL(parsedURL) ==
    parsedURL.err \/ parsedURL.Scheme # <<"https">> \/ parsedURL.Host = E

\* lines 199-202
DialHost(parsedURL) ==
    IF Port(parsedURL) = E THEN Hostname(parsedURL) \o <<":", "443">>
    ELSE parsedURL.Host

handleRequestBegin ==
    /\ pc = "idle"
    /\ \E u \in URLs :
        /\ ep' = "B" /\ rawURL' = u
        /\ IF u = E THEN
              /\ resp' = httpError("Missing 'url' query parameter", 400)
              /\ pc' = "done"
              /\ UNCHANGED <<address, tlsConfig>>
           ELSE IF InvalidURL(Parse(u)) THEN
              /\ resp' = httpError("Invalid 'url' format. Example: https://example.com:8443", 400)
              /\ pc' = "done"
              /\ UNCHANGED <<address, tlsConfig>>
           ELSE
              /\ address' = DialHost(Parse(u))
              \* tls.Dial(..., nil): the server name is the host of the
              \* address and the handshake itself verifies the chain
              /\ tlsConfig' = [ServerName |-> SplitHostPort(address').host,
                               InsecureSkipVerify |-> FALSE]
              /\ pc' = "dialing"
              /\ UNCHANGED resp
    /\ UNCHANGED <<ip, hostname, deadline, peer, conn, dials, openConns,
                   handshakeComplete, certs, verify, message>>

------------------------------------------------------------------------------
(* tls.DialWithDialer (line 64) and tls.Dial (line 205): what the network  *)
(* and the peer do, and how each entry point reports a failure.            *)

\* lines 68-70 and 206-212
ConnectFailure(errText) ==
    IF ep = "A" THEN
        /\ message' = <<"Failed to connect via TLS: ">> \o errText
        /\ resp' = createErrorResponse(500, message')
    ELSE
        /\ resp' = httpError("Failed to connect to the server", 500)
        /\ UNCHANGED message

AddrHost == SplitHostPort(address).host

\* the address is malformed, the name does not resolve, or the target refuses
DialFail ==
    /\ pc = "dialing"
    /\ \/ /\ SplitHostPort(address).err
          /\ ConnectFailure(<<"dial tcp: address ">> \o address
                            \o <<": too many colons in address">>)
       \/ /\ ~SplitHostPort(address).err /\ ~Resolvable(AddrHost) /\ AddrHost # E
          /\ ConnectFailure(<<"dial tcp: lookup ">> \o AddrHost \o <<": no such host">>)
       \/ /\ ~SplitHostPort(address).err /\ (Resolvable(AddrHost) \/ AddrHost = E)
          /\ ConnectFailure(<<"dial tcp ">> \o address
                            \o <<": connect: connection refused">>)
    /\ pc' = "done"
    /\ UNCHANGED <<ep, ip, rawURL, hostname, address, tlsConfig, deadline, peer,
                   conn, dials, openConns, handshakeComplete, certs, verify>>

\* the transport connection is established; the handshake starts
DialAccept ==
    /\ pc = "dialing"
    /\ ~SplitHostPort(address).err /\ (Resolvable(AddrHost) \/ AddrHost = E)
    /\ \E k \in {"tls", "stall"} : peer' = k
    /\ conn' = "open" /\ dials' = dials + 1 /\ openConns' = openConns + 1
    /\ pc' = "handshaking"
    /\ UNCHANGED <<ep, ip, rawURL, hostname, address, tlsConfig, deadline,
                   handshakeComplete, certs, verify, message, resp>>

\* the verification crypto/tls makes during the handshake unless
\* InsecureSkipVerify is set
HandshakeVerify(chain) ==
    IF tlsConfig.InsecureSkipVerify \/ chain = << >> THEN NilErr
    ELSE Verify(chain[1], ValidationOpts(tlsConfig.ServerName, IntermediatesOf(chain)))

HandshakeComplete ==
    /\ pc = "handshaking" /\ peer = "tls"
    /\ \E chain \in Chains :
        /\ HandshakeVerify(chain).nil
        /\ certs' = chain
    /\ handshakeComplete' = TRUE
    /\ pc' = "connected"
    /\ UNCHANGED <<ep, ip, rawURL, hostname, address, tlsConfig, deadline, peer,
                   conn, dials, openConns, verify, message, resp>>

\* the peer answers with something that is not a TLS handshake, or presents
\* a chain the handshake's own verification rejects; the library closes the
\* transport connection before returning the error
HandshakeFail ==
    /\ pc = "handshaking" /\ peer = "tls"
    /\ \/ ConnectFailure(<<"tls: first record does not look like a TLS handshake">>)
       \/ \E chain \in Chains :
            /\ ~HandshakeVerify(chain).nil
            /\ ConnectFailure(<<"tls: failed to verify certificate: ">>
                              \o HandshakeVerify(chain).text)
    /\ conn' = "closed" /\ openConns' = openConns - 1
    /\ pc' = "done"
    /\ UNCHANGED <<ep, ip, rawURL, hostname, address, tlsConfig, deadline, peer,
                   dials, handshakeComplete, certs, verify>>

\* net.Dialer.Timeout (line 63) expires during the connect or the handshake
DialTimeout ==
    /\ pc \in {"dialing", "handshaking"}
    /\ deadline > 0
    /\ IF pc = "dialing"
       THEN /\ ConnectFailure(<<"dial tcp ">> \o address \o <<": i/o timeout">>)
            /\ UNCHANGED <<conn, openConns>>
       ELSE /\ ConnectFailure(<<"context deadline exceeded">>)
            /\ conn' = "closed" /\ openConns' = openConns - 1
    /\ pc' = "done"
    /\ UNCHANGED <<ep, ip, rawURL, hostname, address, tlsConfig, deadline, peer,
                   dials, handshakeComplete, certs, verify>>

------------------------------------------------------------------------------
(* After the dial.                                                         *)

\* `defer conn.Close()` (lines 71 and 213): the connection when the function returns
ConnLeftOpen(c) == c
ConnAfterReturn(c) == "closed"

Return ==
    /\ conn' = ConnAfterReturn(conn)
    /\ openConns' = IF conn' = "closed" THEN openConns - 1 ELSE openConns
    /\ pc' = "done"

\* check-ssl.go:71-133
handlerFinish ==
    /\ pc = "connected" /\ ep = "A"
    /\ IF Len(certs) = 0 THEN
          /\ message' = <<"Server did not provide any certificates.">>
          /\ resp' = createErrorResponse(500, message')
          /\ UNCHANGED verify
       ELSE
          \E r \in VerifyReceiver(certs) :
            LET certInfos == CertInfos(certs)
                validationOpts == ValidationOpts(hostname, IntermediatesOf(certs))
                err == Verify(certs[r], validationOpts)
                responsePayload == [TargetURL |-> <<"https://">> \o hostname,
                                    Certificates |-> certInfos,
                                    ChainValidation |-> ValidationMessage(err)]
                out == MarshalIndent(responsePayload)
            IN  /\ verify' = [called |-> TRUE, receiver |-> VerifyReceiver(certs),
                              opts |-> validationOpts, err |-> err]
                /\ IF out.err THEN
                      /\ message' = <<"Failed to serialize response.">>
                      /\ resp' = createErrorResponse(500, message')
                   ELSE
                      /\ resp' = [StatusCode |-> 200, Body |-> out.json,
                                  ContentType |-> "application/json"]
                      /\ UNCHANGED message
    /\ Return
    /\ UNCHANGED <<ep, ip, rawURL, hostname, address, tlsConfig, deadline, peer,
                   dials, handshakeComplete, certs>>

\* check-ssl.go:213-230
handleRequestFinish ==
    /\ pc = "connected" /\ ep = "B"
    /\ IF Len(certs) = 0 THEN
          resp' = httpError("No certificates found", 500)
       ELSE
          resp' = [StatusCode |-> 200,
                   Body |-> <<"SSL certificate for ">> \o rawURL \o <<" expires on ">>
                            \o FormatRFC3339(certs[1].NotAfter) \o <<"\n">>,
                   ContentType |-> "text/plain; charset=utf-8"]
    /\ Return
    /\ UNCHANGED <<ep, ip, rawURL, hostname, address, tlsConfig, deadline, peer,
                   dials, handshakeComplete, certs, verify, message>>

\* the invocation is over; the next request finds nothing of it but the
\* connections it left open
NextRequest ==
    /\ pc = "done"
    /\ ep' = "-" /\ pc' = "idle"
    /\ ip' = E /\ rawURL' = E /\ hostname' = E /\ address' = E
    /\ tlsConfig' = NoConfig /\ deadline' = 0 /\ peer' = "-"
    /\ conn' = "none" /\ dials' = 0 /\ handshakeComplete' = FALSE
    /\ certs' = << >> /\ verify' = NoVerify /\ message' = E /\ resp' = NoResponse
    /\ UNCHANGED openConns

Next ==
    \/ handlerBegin
    \/ handleRequestBegin
    \/ DialFail
    \/ DialAccept
    \/ HandshakeComplete
    \/ HandshakeFail
    \/ DialTimeout
    \/ handlerFinish
    \/ handleRequestFinish
    \/ NextRequest

Spec == Init /\ [][Next]_vars

\* A running handler takes its next step; the connect attempt ends one way
\* or the other; an armed timeout fires; a peer that answers the handshake
\* answers it.  Nothing makes a silent peer answer.
FairSpec ==
    /\ Spec
    /\ WF_vars(DialFail \/ DialAccept)
    /\ WF_vars(HandshakeComplete \/ HandshakeFail)
    /\ WF_vars(DialTimeout)
    /\ WF_vars(handlerFinish)
    /\ WF_vars(handleRequestFinish)
    /\ WF_vars(NextRequest)

------------------------------------------------------------------------------
(* Properties.                                                             *)

ValidMessage == <<"Certificate chain is valid.">>
FailedPrefix == <<"Certificate chain verification failed: ">>

\* Endpoint A returned after a completed handshake that gave >= 1 certificate
InspectedA == ep = "A" /\ pc = "done" /\ handshakeComplete /\ Len(certs) >= 1

\* the validation message is the valid one iff Verify returned nil, and
\* otherwise the failure prefix followed by the verifier's text
MessageMatchesVerify(msg) ==
    /\ (msg = ValidMessage) <=> verify.err.nil
    /\ ~verify.err.nil => msg = FailedPrefix \o verify.err.text

\* some summary timestamp, once converted to UTC, has a year JSON cannot hold
Unserializable ==
    \E i \in 1..Len(certs) :
        \/ UTC(certs[i].NotBefore).year > 9999
        \/ UTC(certs[i].NotAfter).year > 9999

\* C1 as stated: whenever the handshake completes and the peer presents at
\* least one certificate, Endpoint A answers 200 with the summaries, and the
\* validation message is the valid one iff verification returned no error,
\* otherwise the failure prefix plus the verifier's text.
C1_AlwaysSuccess ==
    InspectedA =>
        /\ resp.StatusCode = 200
        /\ Len(resp.Body.certificates) = Len(certs)
        /\ MessageMatchesVerify(resp.Body.chain_validation_message)

\* C1 amended: the same, except that a chain whose summaries cannot be
\* serialised is answered 500 "Failed to serialize response."; the outcome of
\* the verification never changes the status.
C1_SuccessUnlessUnserializable ==
    InspectedA =>
        IF Unserializable THEN
            /\ resp.StatusCode = 500
            /\ message = <<"Failed to serialize response.">>
        ELSE
            /\ resp.StatusCode = 200
            /\ Len(resp.Body.certificates) = Len(certs)
            /\ MessageMatchesVerify(resp.Body.chain_validation_message)

\* a 200 answer whose verification failed on a name mismatch
C1_Witness ==
    /\ InspectedA /\ resp.StatusCode = 200
    /\ ~verify.err.nil
    /\ HasPrefix(verify.err.text, <<"x509: certificate is valid for ">>)

\* The claim's "hostname of url with any scheme and path stripped (hostname
\* only)": drop a leading "scheme://" or "//", cut at the first "/", drop a
\* trailing ":port".
HostnameOnly(u) ==
    LET a == IF HasPrefix(u, <<"/", "/">>) THEN From(u, 3)
             ELSE IF Len(u) >= 4 /\ SubSeq(u, 2, 4) = <<":", "/", "/">> THEN From(u, 5)
             ELSE u
        cut == Index(a, "/")
        b == IF cut = 0 THEN a ELSE Upto(a, cut - 1)
        colon == LastIndex(b, ":")
    IN  IF colon # 0 /\ \A i \in (colon + 1)..Len(b) : b[i] \in DigitRuns
        THEN Upto(b, colon - 1) ELSE b

\* C2 as stated: for non-empty ip and a url that names a host (with or
\* without scheme, port, path), Endpoint A dials the ip value on port 443,
\* and one name -- the hostname of url, scheme, port and path stripped -- is
\* the TLS server name, the verification name and the name in target_url.
C2_HostnameOnlyEverywhere ==
    (ep = "A" /\ ip # E /\ rawURL # E /\ HostnameOnly(rawURL) # E) =>
        /\ ~SplitHostPort(address).err
        /\ SplitHostPort(address).host = ip
        /\ SplitHostPort(address).port = <<"443">>
        /\ tlsConfig.ServerName = HostnameOnly(rawURL)
        /\ verify.called => verify.opts.DNSName = HostnameOnly(rawURL)
        /\ resp.StatusCode = 200 =>
              resp.Body.target_url = <<"https://">> \o HostnameOnly(rawURL)

\* C3 as stated: an invocation, of either entry point, whose peer accepted
\* the connection and never answers the handshake eventually returns 500.
C3_StalledHandshakeEnds ==
    (pc = "handshaking" /\ peer = "stall") ~> (pc = "done" /\ resp.StatusCode = 500)

\* C4: an invocation opens at most one connection (no retry), has closed it
\* whenever it has returned, and between invocations no connection is open.
C4_OneConnectionAlwaysClosed ==
    /\ dials <= 1
    /\ pc = "done" => conn # "open"
    /\ pc \in {"done", "idle"} => openConns = 0
    /\ (pc = "done" /\ handshakeComplete) => (dials = 1 /\ conn = "closed")

\* the serialization-failure exit: connected, verified, answered 500, closed
C4_Witness ==
    /\ pc = "done" /\ ep = "A" /\ handshakeComplete /\ verify.called
    /\ resp.StatusCode = 500 /\ conn = "closed" /\ dials = 1

HasNoDNSNames(obj) == "dns_names" \notin DOMAIN obj

\* C5: in every chain Endpoint A returns, the summary at index 0 carries the
\* first peer certificate's DNS names and no later summary carries any.
C5_OnlyLeafHasSANs ==
    (ep = "A" /\ pc = "done" /\ resp.StatusCode = 200) =>
        LET cs == resp.Body.certificates
        IN  /\ \A i \in 2..Len(cs) : HasNoDNSNames(cs[i])
            /\ IF certs[1].DNSNames = << >> THEN HasNoDNSNames(cs[1])
               ELSE ~HasNoDNSNames(cs[1]) /\ cs[1].dns_names = certs[1].DNSNames

\* a returned chain of three whose second and third certificates have names
C5_Witness ==
    /\ ep = "A" /\ pc = "done" /\ resp.StatusCode = 200
    /\ Len(certs) = 3
    /\ certs[2].DNSNames # << >> /\ certs[3].DNSNames # << >>

\* C6 as stated: the pool given to Verify holds exactly the certificates at
\* indices 1..n-1, the certificate verified is the one at index 0 (position 1
\* here), and Verify gets the system roots and the validation name.
C6_VerifiesLeafAgainstRest ==
    verify.called =>
        /\ verify.opts.Intermediates = {certs[i] : i \in 2..Len(certs)}
        /\ verify.receiver = {1}
        /\ verify.opts.Roots = SystemRoots
        /\ verify.opts.DNSName = hostname

\* C7: a completed handshake with zero certificates is answered 500 with the
\* "no certificates" text by either entry point, and every 200 of Endpoint A
\* lists the peer's certificates, all of them, in the peer's order.
C7_NoEmptySuccess ==
    /\ (pc = "done" /\ handshakeComplete /\ certs = << >>) =>
          /\ resp.StatusCode = 500
          /\ IF ep = "A"
             THEN message = <<"Server did not provide any certificates.">>
             ELSE resp.Body = <<"No certificates found", "\n">>
    /\ (ep = "A" /\ pc = "done" /\ resp.StatusCode = 200) =>
          LET cs == resp.Body.certificates
          IN  /\ Len(certs) >= 1 /\ Len(cs) = Len(certs)
              /\ \A i \in 1..Len(cs) :
                    /\ cs[i].subject = certs[i].Subject
                    /\ cs[i].issuer = certs[i].Issuer
                    /\ cs[i].is_ca = certs[i].IsCA
                    /\ cs[i].not_after = UTC(certs[i].NotAfter)

\* Endpoint A met a peer that completed the handshake with no certificate
C7_Witness ==
    ep = "A" /\ pc = "done" /\ handshakeComplete /\ certs = << >>

\* Endpoint B accepted the url: https scheme, non-empty host
AcceptedB ==
    /\ ep = "B" /\ rawURL # E
    /\ ~Parse(rawURL).err /\ Parse(rawURL).Scheme = <<"https">> /\ Parse(rawURL).Host # E

\* C8 as stated: for every accepted url the address Endpoint B dials is a
\* well-formed host:port whose host is the url's host and whose port is the
\* url's explicit port, or 443 when the url has none.
C8_WellFormedDialAddress ==
    AcceptedB =>
        /\ ~SplitHostPort(address).err
        /\ SplitHostPort(address).host = Hostname(Parse(rawURL))
        /\ SplitHostPort(address).port =
              IF Port(Parse(rawURL)) = E THEN <<"443">> ELSE Port(Parse(rawURL))

\* C9: Endpoint A answers 400 exactly when ip or url is empty, Endpoint B
\* exactly when url is empty, unparsable, not https or without host; a 400 is
\* given before any dial.
C9_BadRequestExactly ==
    /\ ep = "A" => (resp.StatusCode = 400 <=> (ip = E \/ rawURL = E))
    /\ ep = "B" => (resp.StatusCode = 400 <=>
                      \/ rawURL = E
                      \/ Parse(rawURL).err
                      \/ Parse(rawURL).Scheme # <<"https">>
                      \/ Parse(rawURL).Host = E)
    /\ resp.StatusCode = 400 =>
          /\ dials = 0 /\ conn = "none" /\ address = E /\ pc = "done"

\* Endpoint A rejected a request that has a url and no ip
C9_Witness ==
    ep = "A" /\ resp.StatusCode = 400 /\ ip = E /\ rawURL # E

\* A JSON reader for an object {"error": <string>}: the string ends at the
\* first unescaped double quote, a backslash must be followed by an escapable
\* character, and nothing but "}" may follow the string.
RECURSIVE ScanJSONString(_, _, _)
ScanJSONString(body, i, acc) ==
    IF i > Len(body) THEN [ok |-> FALSE, error |-> E]
    ELSE IF body[i] = DQ THEN
        IF From(body, i + 1) = <<"}">> THEN [ok |-> TRUE, error |-> acc]
        ELSE [ok |-> FALSE, error |-> E]
    ELSE IF body[i] = BS THEN
        IF i + 1 <= Len(body) /\ body[i + 1] \in {DQ, BS}
        THEN ScanJSONString(body, i + 2, Append(acc, body[i + 1]))
        ELSE [ok |-> FALSE, error |-> E]
    ELSE ScanJSONString(body, i + 1, Append(acc, body[i]))

DecodeErrorBody(body) ==
    IF body = E \/ Head(body) # ErrOpen THEN [ok |-> FALSE, error |-> E]
    ELSE ScanJSONString(body, 2, E)

\* C10 as stated: every failure body of Endpoint A is a well-formed JSON
\* object {"error": <string>} whose string decodes to the message.
C10_ErrorBodyDecodes ==
    (ep = "A" /\ pc = "done" /\ resp.StatusCode \in {400, 500}) =>
        /\ DecodeErrorBody(resp.Body).ok
        /\ DecodeErrorBody(resp.Body).error = message

====
